---- MODULE Spec2Model ----
(***************************************************************************)
(* Model of node/sensor.py (class Sensor): the blocking GPS fix            *)
(* acquisition run by the constructor, the AS3935 interrupt polling loop   *)
(* (Sensor.lightning) and the packet assembly (Sensor.collect).            *)
(*                                                                         *)
(* The program is single threaded; pc is the source line the control flow  *)
(* is about to execute.  The hardware (GPS receiver, AS3935 registers,     *)
(* interrupt pin, wall-clock time, operator Ctrl-C) is the environment:    *)
(* its answers are inputs drawn with \E.                                   *)
(***************************************************************************)
EXTENDS Integers, Sequences, FiniteSets, TLC

(* ------------------------------ bounds -------------------------------- *)
\* seconds the RealTimeClock may run past the start of its year
MaxClock == 2
\* receiver updates (gps_module.update()) one fix acquisition may take
MaxGpsPolls == 3
\* interrupt-cause register reads in one call of Sensor.lightning
MaxReads == 2

(* ------------------------- program constants -------------------------- *)
\* check_y = 2020, the receiver's power-on year
SentinelYear == 2020
\* distance = -1, the "disabled / no measurement" value
NoMeasurement == -1
\* gps_lat = gps_long = -1 when the GPS is disabled
NoFix == -1
\* time.sleep(1) in the fix loop, in seconds
FixPollSecs == 1
\* epoch arithmetic of the timestamp docstring
EpochYear == 1970
SecsPerYear == 31556929
SecsPerDay == 86400
SecsPerHour == 3600
SecsPerMin == 60
HoursPerDay == 24

(* --------------------------- input domains ---------------------------- *)
\* years the receiver (or the power-on clock) may report
Years == {SentinelYear, 2024}
\* what the receiver may report beside the fix flag and the year: the
\* second of the year and the (latitude, longitude) pair, in whole degrees
GpsReports == {[tm_sec |-> 0, pos |-> <<30, -96>>],
               [tm_sec |-> 1, pos |-> <<31, -97>>]}
\* interrupt causes; OTHER is any register value that matches no branch
Causes == {"NOISE", "DISTURBER", "LIGHTNING", "OTHER"}
Terminal == {"DISTURBER", "LIGHTNING"}
\* distance_to_storm readouts, km
Distances == {1, 4}
\* how far a time.sleep(0.5) can move a clock that counts whole seconds
SettleSteps == {0, 1}

VARIABLES
  GPS,            \* constants.GPS  (positioning enabled)
  LS,             \* constants.LS   (lightning sensor enabled)
  pc,             \* source line about to run, or a rest state
  clock,          \* self.clock (rtc.RTC): [tm_year, tm_sec]
  rtcWrites,      \* number of assignments to self.clock.datetime
  GPS_ENABLE,     \* self.GPS_ENABLE.value (receiver power)
  gpsCmds,        \* number of send_command calls made
  gps_module,     \* receiver state: [has_fix, tm_year, tm_sec, pos]
  check_y,        \* local of get_GPS_Fix
  gpsPolls,       \* gps_module.update() calls made
  gpsSleeps,      \* time.sleep(1) calls made in get_GPS_Fix
  fix,            \* locals gps_lat, gps_long of get_GPS_Fix, as a pair
  goodPoll,       \* some update reported has_fix with a year other than 2020
  sentinelOnly,   \* every update before the last reported has_fix with 2020
  gps_lat,        \* self.gps_lat
  gps_long,       \* self.gps_long
  coordWrites,    \* number of assignments to self.gps_lat, self.gps_long
  prevReport,     \* the last value of i printed on line 255, 0 before any
  PiLED,          \* self.PiLED.value
  readout,        \* what distance_to_storm returned on the current pass
  interrupt_value,\* local of lightning
  distance,       \* local of lightning
  i,              \* local of lightning (disturber counter)
  reads,          \* read_interrupt_register calls in this call of lightning
  passClears,     \* clear_statistics calls since the last register read
  terminals,      \* DISTURBER/LIGHTNING reads in this call of lightning
  noisePasses,    \* NOISE reads in this call of lightning
  sampledLow,     \* the pin was sampled low in this call of lightning
  cancelled,      \* KeyboardInterrupt was raised in this call of lightning
  retBy,          \* how the loop of lightning was left: none, break, cancel
  tStart,         \* time.time() when collect called lightning
  tClass,         \* time.time() at the last register read
  tReturn,        \* time.time() when lightning returned to collect
  stk,            \* local of collect
  t_stmp,         \* local of collect
  t_int,          \* local of collect
  packet          \* local of collect: the rendered record

pollHist == <<goodPoll, sentinelOnly>>
gpsVars == <<GPS_ENABLE, gpsCmds, gps_module, check_y, gpsPolls, gpsSleeps, fix,
             pollHist>>
nodeVars == <<gps_lat, gps_long, coordWrites, prevReport>>
loopVars == <<readout, interrupt_value, distance, i, reads, passClears,
              terminals, noisePasses, sampledLow, cancelled, retBy>>
histVars == <<tStart, tClass, tReturn>>
collectVars == <<stk, t_stmp, t_int, packet>>
vars == <<GPS, LS, pc, clock, rtcWrites, gpsVars, nodeVars, PiLED, loopVars,
          histVars, collectVars>>

(* ------------------------------ the clock ------------------------------ *)
\* time.time(): seconds since Jan 1st, 1970
time_time(c) == (c.tm_year - EpochYear) * SecsPerYear + c.tm_sec

\* datetime.now().isoformat(sep="T"): YYYY-MM-DDThh:mm:ss as
\* <<year, day of year, hours, minutes, seconds>>
isoformat(c) ==
  <<c.tm_year,
    c.tm_sec \div SecsPerDay,
    (c.tm_sec \div SecsPerHour) % HoursPerDay,
    (c.tm_sec \div SecsPerMin) % SecsPerMin,
    c.tm_sec % SecsPerMin>>

\* the clock d seconds later
Advance(c, d) == [c EXCEPT !.tm_sec = @ + d]

(* --------------------------- initial state ----------------------------- *)
Init ==
  /\ GPS \in BOOLEAN
  /\ LS \in BOOLEAN
  /\ pc = "L41"
  /\ clock \in [tm_year : Years, tm_sec : {0}]
  /\ rtcWrites = 0
  /\ GPS_ENABLE = FALSE
  /\ gpsCmds = 0
  /\ gps_module = [has_fix |-> FALSE, tm_year |-> SentinelYear, tm_sec |-> 0,
                   pos |-> <<0, 0>>]
  /\ check_y = 0
  /\ gpsPolls = 0
  /\ gpsSleeps = 0
  /\ fix = <<0, 0>>
  /\ goodPoll = FALSE
  /\ sentinelOnly = TRUE
  /\ gps_lat = 0
  /\ gps_long = 0
  /\ coordWrites = 0
  /\ prevReport = 0
  /\ PiLED = FALSE
  /\ readout = NoMeasurement
  /\ interrupt_value = "unbound"
  /\ distance = NoMeasurement
  /\ i = 0
  /\ reads = 0
  /\ passClears = 0
  /\ terminals = 0
  /\ noisePasses = 0
  /\ sampledLow = FALSE
  /\ cancelled = FALSE
  /\ retBy = "none"
  /\ tStart = 0
  /\ tClass = 0
  /\ tReturn = 0
  /\ stk = NoMeasurement
  /\ t_stmp = <<>>
  /\ t_int = 0
  /\ packet = <<>>

(* ------------------- Sensor.__init__ and get_GPS_Fix ------------------- *)
\* the fix loop with "and" for "or": either condition alone ends the wait
WaitingForFix_And(has_fix, y) == ~has_fix /\ y = SentinelYear

\* line 140: the condition that keeps the fix loop running
WaitingForFix(has_fix, y) == ~has_fix \/ y = SentinelYear

\* get_GPS_Fix without its "if GPS:" test
Construct_NoFlagTest ==
  /\ pc = "L41"
  /\ pc' = "L127"
  /\ UNCHANGED <<GPS, LS, clock, rtcWrites, gpsVars, nodeVars, PiLED,
                 loopVars, histVars, collectVars>>

\* lines 41-46: create the clock and the GPS_ENABLE output, call get_GPS_Fix,
\* whose first statement is "if GPS:"
Construct ==
  /\ pc = "L41"
  /\ pc' = IF GPS THEN "L127" ELSE "L168"
  /\ UNCHANGED <<GPS, LS, clock, rtcWrites, gpsVars, nodeVars, PiLED,
                 loopVars, histVars, collectVars>>

\* line 127: self.GPS_ENABLE.value = 1
PowerOn ==
  /\ pc = "L127"
  /\ GPS_ENABLE' = TRUE
  /\ pc' = "L133"
  /\ UNCHANGED <<GPS, LS, clock, rtcWrites, gpsCmds, gps_module, check_y,
                 gpsPolls, gpsSleeps, fix, pollHist, nodeVars, PiLED, loopVars,
                 histVars, collectVars>>

\* lines 129-138: open the UART, send the two PMTK commands, check_y = 2020
Configure ==
  /\ pc = "L133"
  /\ gpsCmds' = gpsCmds + 2
  /\ check_y' = SentinelYear
  /\ pc' = "L140"
  /\ UNCHANGED <<GPS, LS, clock, rtcWrites, GPS_ENABLE, gps_module, gpsPolls,
                 gpsSleeps, fix, pollHist, nodeVars, PiLED, loopVars, histVars,
                 collectVars>>

\* the fix loop with a timeout after two updates
FixLoopTest_Timeout ==
  /\ pc = "L140"
  /\ pc' = IF WaitingForFix(gps_module.has_fix, check_y) /\ gpsPolls < 2
           THEN "L142" ELSE "L148"
  /\ UNCHANGED <<GPS, LS, clock, rtcWrites, gpsVars, nodeVars, PiLED,
                 loopVars, histVars, collectVars>>

\* line 140: while not gps_module.has_fix or check_y == 2020
FixLoopTest ==
  /\ pc = "L140"
  /\ pc' = IF WaitingForFix(gps_module.has_fix, check_y) THEN "L142" ELSE "L148"
  /\ UNCHANGED <<GPS, LS, clock, rtcWrites, gpsVars, nodeVars, PiLED,
                 loopVars, histVars, collectVars>>

\* line 142: gps_module.update() parses whatever the receiver sent
GpsUpdate ==
  /\ pc = "L142"
  /\ gpsPolls < MaxGpsPolls
  /\ \E f \in BOOLEAN, y \in Years, r \in GpsReports :
       /\ gps_module' = [has_fix |-> f, tm_year |-> y, tm_sec |-> r.tm_sec,
                         pos |-> r.pos]
       /\ goodPoll' = (goodPoll \/ (f /\ y # SentinelYear))
  /\ sentinelOnly' = (sentinelOnly /\ (gpsPolls = 0 \/
                        (gps_module.has_fix /\ gps_module.tm_year = SentinelYear)))
  /\ gpsPolls' = gpsPolls + 1
  /\ pc' = "L143"
  /\ UNCHANGED <<GPS, LS, clock, rtcWrites, GPS_ENABLE, gpsCmds, check_y,
                 gpsSleeps, fix, nodeVars, PiLED, loopVars, histVars,
                 collectVars>>

\* the fix loop leaving right after the year read, before the sleep
ReadYear_ExitEarly ==
  /\ pc = "L143"
  /\ check_y' = gps_module.tm_year
  /\ pc' = IF WaitingForFix(gps_module.has_fix, gps_module.tm_year)
           THEN "L144" ELSE "L148"
  /\ UNCHANGED <<GPS, LS, clock, rtcWrites, GPS_ENABLE, gpsCmds, gps_module,
                 gpsPolls, gpsSleeps, fix, pollHist, nodeVars, PiLED, loopVars,
                 histVars, collectVars>>

\* line 143: check_y = gps_module.timestamp_utc.tm_year
ReadYear ==
  /\ pc = "L143"
  /\ check_y' = gps_module.tm_year
  /\ pc' = "L144"
  /\ UNCHANGED <<GPS, LS, clock, rtcWrites, GPS_ENABLE, gpsCmds, gps_module,
                 gpsPolls, gpsSleeps, fix, pollHist, nodeVars, PiLED, loopVars,
                 histVars, collectVars>>

\* line 144: time.sleep(1)
FixSleep ==
  /\ pc = "L144"
  /\ clock' = Advance(clock, FixPollSecs)
  /\ gpsSleeps' = gpsSleeps + 1
  /\ pc' = "L140"
  /\ UNCHANGED <<GPS, LS, rtcWrites, GPS_ENABLE, gpsCmds, gps_module, check_y,
                 gpsPolls, fix, pollHist, nodeVars, PiLED, loopVars, histVars,
                 collectVars>>

\* the location taken from one more receiver update
StoreLocation_Refresh ==
  /\ pc = "L148"
  /\ \E f \in BOOLEAN, y \in Years, r \in GpsReports :
       /\ gps_module' = [has_fix |-> f, tm_year |-> y, tm_sec |-> r.tm_sec,
                         pos |-> r.pos]
       /\ fix' = r.pos
  /\ pc' = "L152"
  /\ UNCHANGED <<GPS, LS, clock, rtcWrites, GPS_ENABLE, gpsCmds, check_y,
                 gpsPolls, gpsSleeps, pollHist, nodeVars, PiLED, loopVars,
                 histVars, collectVars>>

\* lines 148-149: gps_lat = gps_module.latitude; gps_long = gps_module.longitude
StoreLocation ==
  /\ pc = "L148"
  /\ fix' = gps_module.pos
  /\ pc' = "L152"
  /\ UNCHANGED <<GPS, LS, clock, rtcWrites, GPS_ENABLE, gpsCmds, gps_module,
                 check_y, gpsPolls, gpsSleeps, pollHist, nodeVars, PiLED, loopVars,
                 histVars, collectVars>>

\* lines 152-164: self.clock.datetime = time.struct_time((timestamp_utc ...))
SetRTC ==
  /\ pc = "L152"
  /\ clock' = [tm_year |-> gps_module.tm_year, tm_sec |-> gps_module.tm_sec]
  /\ rtcWrites' = rtcWrites + 1
  /\ pc' = "L171"
  /\ UNCHANGED <<GPS, LS, gpsVars, nodeVars, PiLED, loopVars, histVars,
                 collectVars>>

\* lines 168-169: gps_lat = -1; gps_long = -1
NoGPS ==
  /\ pc = "L168"
  /\ fix' = <<NoFix, NoFix>>
  /\ pc' = "L171"
  /\ UNCHANGED <<GPS, LS, clock, rtcWrites, GPS_ENABLE, gpsCmds, gps_module,
                 check_y, gpsPolls, gpsSleeps, pollHist, nodeVars, PiLED, loopVars,
                 histVars, collectVars>>

\* line 171 and line 46: return gps_lat, gps_long into self.gps_lat, self.gps_long
ReturnFix ==
  /\ pc = "L171"
  /\ gps_lat' = fix[1]
  /\ gps_long' = fix[2]
  /\ coordWrites' = coordWrites + 1
  /\ sentinelOnly' = TRUE
  /\ pc' = "L53"
  /\ UNCHANGED <<GPS, LS, clock, rtcWrites, GPS_ENABLE, gpsCmds, gps_module,
                 check_y, gpsPolls, gpsSleeps, fix, goodPoll, prevReport,
                 PiLED, loopVars, histVars, collectVars>>

\* lines 49-53: build the filename, time.sleep(.5)
PowerDownDelay ==
  /\ pc = "L53"
  /\ \E d \in SettleSteps : clock' = Advance(clock, d)
  /\ pc' = "L54"
  /\ UNCHANGED <<GPS, LS, rtcWrites, gpsVars, nodeVars, PiLED, loopVars,
                 histVars, collectVars>>

\* the constructor without its power-down of the receiver
PowerOff_Skipped ==
  /\ pc = "L54"
  /\ pc' = "L57"
  /\ UNCHANGED <<GPS, LS, clock, rtcWrites, gpsVars, nodeVars, PiLED,
                 loopVars, histVars, collectVars>>

\* line 54: self.GPS_ENABLE.value = 0
PowerOff ==
  /\ pc = "L54"
  /\ GPS_ENABLE' = FALSE
  /\ pc' = "L57"
  /\ UNCHANGED <<GPS, LS, clock, rtcWrites, gpsCmds, gps_module, check_y,
                 gpsPolls, gpsSleeps, fix, pollHist, nodeVars, PiLED, loopVars,
                 histVars, collectVars>>

\* lines 57-97: set up the interrupt pin and, with LS, the LED and the
\* detector; a detector that is not connected ends the process (sys.exit(1))
SetupDetector ==
  /\ pc = "L57"
  /\ \E connected \in BOOLEAN :
       pc' = IF LS /\ ~connected THEN "exited" ELSE "idle"
  /\ UNCHANGED <<GPS, LS, clock, rtcWrites, gpsVars, nodeVars, PiLED,
                 loopVars, histVars, collectVars>>

Startup ==
  \/ Construct \/ PowerOn \/ Configure \/ FixLoopTest \/ GpsUpdate
  \/ ReadYear \/ FixSleep \/ StoreLocation \/ SetRTC \/ NoGPS \/ ReturnFix
  \/ PowerDownDelay \/ PowerOff \/ SetupDetector

(* --------------------------- Sensor.lightning -------------------------- *)
\* lines inside the try block of lightning (235-272)
TryLines == {"L239", "L241", "L244", "L248", "L250", "L253", "L256", "L258",
             "L262", "L265", "L266", "L271", "L272"}
\* lines of lightning outside the try block
BareLines == {"L233", "L276"}
\* lines of collect after lightning has returned
CollectLines == {"L293", "L295", "L298", "L301"}

\* the NOISE branch ending with the break of the DISTURBER branch
Classify_NoiseBreaks(iv) ==
  CASE iv = "NOISE" -> "L256"
    [] iv = "DISTURBER" -> "L253"
    [] iv = "LIGHTNING" -> "L262"
    [] OTHER -> "L271"

\* the NOISE branch without its clear_statistics()
Classify_NoiseNoClear(iv) ==
  CASE iv = "NOISE" -> "L271"
    [] iv = "DISTURBER" -> "L253"
    [] iv = "LIGHTNING" -> "L262"
    [] OTHER -> "L271"

\* the LIGHTNING branch without its self.PiLED.value = 1
Classify_LightningNoLed(iv) ==
  CASE iv = "NOISE" -> "L250"
    [] iv = "DISTURBER" -> "L253"
    [] iv = "LIGHTNING" -> "L265"
    [] OTHER -> "L271"

\* the DISTURBER branch with its break commented out
Classify_DisturberNoBreak(iv) ==
  CASE iv = "NOISE" -> "L250"
    [] iv = "DISTURBER" -> "L250"
    [] iv = "LIGHTNING" -> "L262"
    [] OTHER -> "L271"

\* lines 248-268: the branch taken for an interrupt cause
Classify(iv) ==
  CASE iv = "NOISE" -> "L250"
    [] iv = "DISTURBER" -> "L253"
    [] iv = "LIGHTNING" -> "L262"
    [] OTHER -> "L271"

\* collect storing the receiver's position again before the wait
Collect_Refix ==
  /\ pc = "idle"
  /\ pc' = "L233"
  /\ gps_lat' = gps_module.pos[1]
  /\ gps_long' = gps_module.pos[2]
  /\ coordWrites' = coordWrites + 1
  /\ tStart' = time_time(clock)
  /\ tClass' = time_time(clock)
  /\ tReturn' = time_time(clock)
  /\ UNCHANGED <<GPS, LS, clock, rtcWrites, gpsVars, prevReport, PiLED,
                 loopVars, collectVars>>

\* line 291: collect calls self.lightning()
Collect ==
  /\ pc = "idle"
  /\ pc' = "L233"
  /\ tStart' = time_time(clock)
  /\ tClass' = time_time(clock)
  /\ tReturn' = time_time(clock)
  /\ UNCHANGED <<GPS, LS, clock, rtcWrites, gpsVars, nodeVars, PiLED,
                 loopVars, collectVars>>

\* lightning switching the LED off on entry
EnterLightning_LedOff ==
  /\ pc = "L233"
  /\ distance' = NoMeasurement
  /\ i' = 0
  /\ PiLED' = FALSE
  /\ pc' = "L239"
  /\ UNCHANGED <<GPS, LS, clock, rtcWrites, gpsVars, nodeVars, readout,
                 interrupt_value, reads, passClears, terminals, noisePasses,
                 sampledLow, cancelled, retBy, histVars, collectVars>>

\* lines 233-236: distance = -1; try: i = 0
EnterLightning ==
  /\ pc = "L233"
  /\ distance' = NoMeasurement
  /\ i' = 0
  /\ pc' = "L239"
  /\ UNCHANGED <<GPS, LS, clock, rtcWrites, gpsVars, nodeVars, PiLED, readout,
                 interrupt_value, reads, passClears, terminals, noisePasses,
                 sampledLow, cancelled, retBy, histVars, collectVars>>

\* lines 237-240 and 268-269: while True: if self.as3935_interrupt_pin.value:
\* if LS: ... else: break
PollPin ==
  /\ pc = "L239"
  /\ \E v \in BOOLEAN :
       \/ /\ ~v
          /\ sampledLow' = TRUE
          /\ UNCHANGED <<pc, retBy>>
       \/ /\ v
          /\ LS
          /\ reads < MaxReads
          /\ pc' = "L241"
          /\ UNCHANGED <<sampledLow, retBy>>
       \/ /\ v
          /\ ~LS
          /\ retBy' = "break"
          /\ pc' = "L276"
          /\ UNCHANGED sampledLow
  /\ UNCHANGED <<GPS, LS, clock, rtcWrites, gpsVars, nodeVars, PiLED, readout,
                 interrupt_value, distance, i, reads, passClears, terminals,
                 noisePasses, cancelled, histVars, collectVars>>

\* line 241: interrupt_value = self.as3935.read_interrupt_register()
ReadInterrupt ==
  /\ pc = "L241"
  /\ \E c \in Causes :
       /\ interrupt_value' = c
       /\ terminals' = IF c \in Terminal THEN terminals + 1 ELSE terminals
  /\ reads' = reads + 1
  /\ passClears' = 0
  /\ tClass' = time_time(clock)
  /\ pc' = "L244"
  /\ UNCHANGED <<GPS, LS, clock, rtcWrites, gpsVars, nodeVars, PiLED,
                 readout, distance, i, noisePasses, sampledLow, cancelled,
                 retBy, tStart, tReturn, collectVars>>

\* the distance read on the first pass of a call only
ReadDistance_FirstPassOnly ==
  /\ pc = "L244"
  /\ \E d \in Distances :
       /\ readout' = d
       /\ distance' = IF distance = NoMeasurement THEN d ELSE distance
  /\ pc' = "L248"
  /\ UNCHANGED <<GPS, LS, clock, rtcWrites, gpsVars, nodeVars, PiLED,
                 interrupt_value, i, reads, passClears, terminals,
                 noisePasses, sampledLow, cancelled, retBy, histVars,
                 collectVars>>

\* lines 244-246: distance = self.as3935.distance_to_storm (and the energy,
\* which is read into a local that is never used)
ReadDistance ==
  /\ pc = "L244"
  /\ \E d \in Distances :
       /\ readout' = d
       /\ distance' = d
  /\ pc' = "L248"
  /\ UNCHANGED <<GPS, LS, clock, rtcWrites, gpsVars, nodeVars, PiLED,
                 interrupt_value, i, reads, passClears, terminals,
                 noisePasses, sampledLow, cancelled, retBy, histVars,
                 collectVars>>

\* lines 248, 252, 260: if / elif / elif on interrupt_value
Branch ==
  /\ pc = "L248"
  /\ pc' = Classify(interrupt_value)
  /\ UNCHANGED <<GPS, LS, clock, rtcWrites, gpsVars, nodeVars, PiLED,
                 loopVars, histVars, collectVars>>

\* self.as3935.clear_statistics() at line `at`, going on to line `to`
ClearStatistics(at, to) ==
  /\ pc = at
  /\ passClears' = passClears + 1
  /\ pc' = to
  /\ UNCHANGED <<GPS, LS, clock, rtcWrites, gpsVars, nodeVars, PiLED, readout,
                 interrupt_value, distance, i, reads, terminals, noisePasses,
                 sampledLow, cancelled, retBy, histVars, collectVars>>

\* break at line `at`
Break(at) ==
  /\ pc = at
  /\ retBy' = "break"
  /\ pc' = "L276"
  /\ UNCHANGED <<GPS, LS, clock, rtcWrites, gpsVars, nodeVars, PiLED, readout,
                 interrupt_value, distance, i, reads, passClears, terminals,
                 noisePasses, sampledLow, cancelled, histVars, collectVars>>

\* lines 249-250: NOISE
ClearNoise == ClearStatistics("L250", "L271")

\* lines 253-255: DISTURBER, i += 1, print(f"... Disturber {i} detected ...")
CountDisturber ==
  /\ pc = "L253"
  /\ i' = i + 1
  /\ prevReport' = i + 1
  /\ pc' = "L256"
  /\ UNCHANGED <<GPS, LS, clock, rtcWrites, gpsVars, gps_lat, gps_long,
                 coordWrites, PiLED, readout,
                 interrupt_value, distance, reads, passClears, terminals,
                 noisePasses, sampledLow, cancelled, retBy, histVars,
                 collectVars>>

\* line 256
ClearDisturber == ClearStatistics("L256", "L258")

\* line 258
BreakDisturber == Break("L258")

\* line 262: LIGHTNING, self.PiLED.value = 1
LedOn ==
  /\ pc = "L262"
  /\ PiLED' = TRUE
  /\ pc' = "L265"
  /\ UNCHANGED <<GPS, LS, clock, rtcWrites, gpsVars, nodeVars, loopVars,
                 histVars, collectVars>>

\* line 265
ClearLightning == ClearStatistics("L265", "L266")

\* line 266
BreakLightning == Break("L266")

\* line 271: time.sleep(0.5), reached when no branch broke out of the loop
Settle ==
  /\ pc = "L271"
  /\ \E d \in SettleSteps :
       /\ clock.tm_sec + d <= MaxClock
       /\ clock' = Advance(clock, d)
  /\ noisePasses' = IF interrupt_value = "NOISE" THEN noisePasses + 1
                    ELSE noisePasses
  /\ pc' = "L272"
  /\ UNCHANGED <<GPS, LS, rtcWrites, gpsVars, nodeVars, PiLED, readout,
                 interrupt_value, distance, i, reads, passClears, terminals,
                 sampledLow, cancelled, retBy, histVars, collectVars>>

\* line 272: self.PiLED.value = 0
LedOff ==
  /\ pc = "L272"
  /\ PiLED' = FALSE
  /\ pc' = "L239"
  /\ UNCHANGED <<GPS, LS, clock, rtcWrites, gpsVars, nodeVars, loopVars,
                 histVars, collectVars>>

\* the operator's Ctrl-C: inside the try block control goes to the except
\* clause (line 273); on the lines of lightning outside it the exception
\* leaves lightning and collect
KeyboardInterrupt ==
  /\ \/ /\ pc \in TryLines
        /\ cancelled' = TRUE
        /\ pc' = "L274"
     \/ /\ pc \in BareLines
        /\ cancelled' = TRUE
        /\ pc' = "propagated"
  /\ UNCHANGED <<GPS, LS, clock, rtcWrites, gpsVars, nodeVars, PiLED, readout,
                 interrupt_value, distance, i, reads, passClears, terminals,
                 noisePasses, sampledLow, retBy, histVars, collectVars>>

\* lines 273-274: except KeyboardInterrupt: pass
ExceptPass ==
  /\ pc = "L274"
  /\ retBy' = "cancel"
  /\ pc' = "L276"
  /\ UNCHANGED <<GPS, LS, clock, rtcWrites, gpsVars, nodeVars, PiLED, readout,
                 interrupt_value, distance, i, reads, passClears, terminals,
                 noisePasses, sampledLow, cancelled, histVars, collectVars>>

(* ---------------------------- Sensor.collect --------------------------- *)
\* a separator and a field of the rendered packet
Comma == [k |-> "comma", v |-> <<>>]
Field(x) == [k |-> "field", v |-> <<x>>]

\* the packet with the distance before the coordinates
Render_DistanceFirst(ts, ti, lat, long, s) ==
  <<Field(ts), Comma, Field(ti), Comma, Field(s), Comma, Field(lat), Comma,
    Field(long)>>

\* line 298: f"{t_stmp},{t_int},{self.gps_lat},{self.gps_long},{stk}"
Render(ts, ti, lat, long, s) ==
  <<Field(ts), Comma, Field(ti), Comma, Field(lat), Comma, Field(long), Comma,
    Field(s)>>

\* line 276 and line 291: return distance; stk = self.lightning();
\* the locals of lightning end with its frame
ReturnDistance ==
  /\ pc = "L276"
  /\ stk' = distance
  /\ interrupt_value' = "unbound"
  /\ distance' = NoMeasurement
  /\ i' = 0
  /\ tReturn' = time_time(clock)
  /\ pc' = "L293"
  /\ UNCHANGED <<GPS, LS, clock, rtcWrites, gpsVars, nodeVars, PiLED, readout,
                 reads, passClears, terminals, noisePasses, sampledLow,
                 cancelled, retBy, tStart, tClass, t_stmp, t_int, packet>>

\* line 293: t_stmp = self.timestamp()
Timestamp ==
  /\ pc = "L293"
  /\ t_stmp' = isoformat(clock)
  /\ pc' = "L295"
  /\ UNCHANGED <<GPS, LS, clock, rtcWrites, gpsVars, nodeVars, PiLED,
                 loopVars, histVars, stk, t_int, packet>>

\* the epoch value taken when the wait began
EpochTime_AtStart ==
  /\ pc = "L295"
  /\ t_int' = tStart
  /\ pc' = "L298"
  /\ UNCHANGED <<GPS, LS, clock, rtcWrites, gpsVars, nodeVars, PiLED,
                 loopVars, histVars, stk, t_stmp, packet>>

\* line 295: t_int = time.time()
EpochTime ==
  /\ pc = "L295"
  /\ t_int' = time_time(clock)
  /\ pc' = "L298"
  /\ UNCHANGED <<GPS, LS, clock, rtcWrites, gpsVars, nodeVars, PiLED,
                 loopVars, histVars, stk, t_stmp, packet>>

\* line 298: packet = f"..."
Assemble ==
  /\ pc = "L298"
  /\ packet' = Render(t_stmp, t_int, gps_lat, gps_long, stk)
  /\ pc' = "L301"
  /\ UNCHANGED <<GPS, LS, clock, rtcWrites, gpsVars, nodeVars, PiLED,
                 loopVars, histVars, stk, t_stmp, t_int>>

\* line 301: return packet; the locals of collect end with its frame and
\* the bookkeeping of the finished call is dropped
ReturnPacket ==
  /\ pc = "L301"
  /\ pc' = "idle"
  /\ readout' = NoMeasurement
  /\ reads' = 0
  /\ passClears' = 0
  /\ terminals' = 0
  /\ noisePasses' = 0
  /\ sampledLow' = FALSE
  /\ cancelled' = FALSE
  /\ retBy' = "none"
  /\ tStart' = 0
  /\ tClass' = 0
  /\ tReturn' = 0
  /\ stk' = NoMeasurement
  /\ t_stmp' = <<>>
  /\ t_int' = 0
  /\ packet' = <<>>
  /\ UNCHANGED <<GPS, LS, clock, rtcWrites, gpsVars, nodeVars, PiLED,
                 interrupt_value, distance, i>>

\* a second passes on the RealTimeClock while lightning or collect runs
Tick ==
  /\ pc \in TryLines \cup BareLines \cup CollectLines \cup {"L274"}
  /\ clock.tm_sec < MaxClock
  /\ clock' = Advance(clock, 1)
  /\ UNCHANGED <<GPS, LS, pc, rtcWrites, gpsVars, nodeVars, PiLED, loopVars,
                 histVars, collectVars>>

Lightning ==
  \/ EnterLightning \/ PollPin \/ ReadInterrupt \/ ReadDistance \/ Branch
  \/ ClearNoise \/ CountDisturber \/ ClearDisturber \/ BreakDisturber
  \/ LedOn \/ ClearLightning \/ BreakLightning \/ Settle \/ LedOff
  \/ KeyboardInterrupt \/ ExceptPass

Collecting ==
  \/ Collect \/ ReturnDistance \/ Timestamp \/ EpochTime \/ Assemble
  \/ ReturnPacket

Next == Startup \/ Lightning \/ Collecting \/ Tick

Spec == Init /\ [][Next]_vars

\* the statements of lightning: the interpreter runs the next one whenever
\* there is one; Ctrl-C and the passing of time are not its to schedule
LoopStep ==
  \/ EnterLightning \/ PollPin \/ ReadInterrupt \/ ReadDistance \/ Branch
  \/ ClearNoise \/ CountDisturber \/ ClearDisturber \/ BreakDisturber
  \/ LedOn \/ ClearLightning \/ BreakLightning \/ Settle \/ LedOff
  \/ ExceptPass

FairSpec == Spec /\ WF_vars(LoopStep)

(* ======================= properties of the program ===================== *)

(* ---- reading a rendered packet back ---- *)
\* the fields of a packet: the runs of values between its commas
RECURSIVE SplitFrom(_, _, _)
SplitFrom(p, n, cur) ==
  IF n > Len(p) THEN <<cur>>
  ELSE IF p[n].k = "comma" THEN <<cur>> \o SplitFrom(p, n + 1, <<>>)
  ELSE SplitFrom(p, n + 1, cur \o p[n].v)
Split(p) == SplitFrom(p, 1, <<>>)

\* the epoch seconds an ISO timestamp <<year, day, hh, mm, ss>> stands for
IsoToEpoch(t) ==
  (t[1] - EpochYear) * SecsPerYear + t[2] * SecsPerDay + t[3] * SecsPerHour
    + t[4] * SecsPerMin + t[5]

\* lightning has left its loop and is about to return
AtReturn == pc = "L276"
\* collect has rendered its packet and is about to return it
RecordAssembled == pc = "L301"

(* ---- C1 ---- *)
\* C1: with the detector enabled and no cancellation, lightning leaves its
\* loop only on a pass whose cause is DISTURBER or LIGHTNING (never on a
\* NOISE pass), and it does so on the first such pass: the pin is never
\* polled again, and no further register read is made, once a DISTURBER or
\* LIGHTNING cause has been read, so every such read ends exactly one call.
C1_TerminalReadEndsCall ==
  (LS /\ ~cancelled) =>
    /\ terminals <= 1
    /\ AtReturn => /\ retBy = "break"
                   /\ interrupt_value \in Terminal
                   /\ terminals = 1
    /\ pc \in {"L239", "L241", "L250", "L271", "L272"} => terminals = 0
    /\ pc \in {"L250", "L271", "L272"} => interrupt_value \notin Terminal

\* a call that absorbed a NOISE pass and then returned on a DISTURBER read
C1_Witness ==
  /\ LS /\ ~cancelled /\ AtReturn
  /\ noisePasses >= 1
  /\ interrupt_value = "DISTURBER"

(* ---- C2 ---- *)
\* C2: with positioning enabled, get_GPS_Fix is past its wait loop only if
\* the last receiver update reported has_fix true and a year other than
\* 2020, both in that same update; at least one update has been made.
C2_FixNeedsFlagAndYear ==
  (GPS /\ pc \notin {"L41", "L127", "L133", "L140", "L142", "L143", "L144"}) =>
    /\ gpsPolls >= 1
    /\ gps_module.has_fix
    /\ gps_module.tm_year # SentinelYear
    /\ check_y = gps_module.tm_year

\* the wait ended after more than one update
C2_Witness == GPS /\ pc = "L148" /\ gpsPolls >= 2

(* ---- C3 ---- *)
\* C3: with the detector disabled lightning returns -1 at once, whatever
\* the interrupt pin reads: it is never back at the pin poll after a sample
\* of the pin, and whenever it returns it returns -1.
C3_DisabledReturnsAtOnce ==
  ~LS => /\ ~(pc = "L239" /\ sampledLow)
         /\ AtReturn => distance = NoMeasurement

(* ---- C4 ---- *)
\* C4: a call of lightning that was ended by KeyboardInterrupt after one or
\* more NOISE passes had been processed (and no other pass begun) returns
\* the "no measurement" value -1.
C4_CancelReturnsSentinel ==
  (AtReturn /\ retBy = "cancel" /\ noisePasses >= 1 /\ reads = noisePasses)
    => distance = NoMeasurement

(* ---- C5 ---- *)
\* C5: collect assembles a record only after a call of lightning in which
\* exactly one DISTURBER or LIGHTNING cause was read, or with the detector
\* disabled.
C5_RecordOnlyAfterTerminal ==
  RecordAssembled => (~LS \/ terminals = 1)

(* ---- C6 ---- *)
\* C6: with positioning disabled no receiver update, no sleep of the fix
\* loop, no command, no clock write and no receiver power-on ever happens,
\* get_GPS_Fix returns (-1, -1) with the clock where it was, the stored
\* coordinates are (-1, -1) and every record carries -1, -1 as its third and
\* fourth field.
C6_DisabledFixIsInert ==
  ~GPS =>
    /\ gpsPolls = 0 /\ gpsSleeps = 0 /\ gpsCmds = 0
    /\ rtcWrites = 0
    /\ ~GPS_ENABLE
    /\ pc \in {"L168", "L171"} => clock.tm_sec = 0
    /\ pc = "L171" => fix = <<NoFix, NoFix>>
    /\ coordWrites >= 1 => gps_lat = NoFix /\ gps_long = NoFix
    /\ RecordAssembled => /\ Len(Split(packet)) = 5
                          /\ Split(packet)[3] = <<NoFix>>
                          /\ Split(packet)[4] = <<NoFix>>

\* a record produced by a node without positioning
C6_Witness == ~GPS /\ RecordAssembled /\ coordWrites = 1

C10_TimesReadAfterReturn ==
  RecordAssembled =>
    LET f == Split(packet) IN
      /\ tStart <= tClass /\ tClass <= tReturn
      /\ IsoToEpoch(f[1][1]) >= tReturn
      /\ f[2][1] >= tReturn
      /\ tReturn > tStart => /\ IsoToEpoch(f[1][1]) # tStart
                             /\ f[2][1] # tStart

\* a record of a terminal pass that was read after the clock had moved
C10_Witness ==
  /\ RecordAssembled /\ LS /\ retBy = "break" /\ terminals = 1
  /\ tClass > tStart

\* the constructor has returned: the node is between or inside collect calls
Constructed ==
  pc \in {"idle", "propagated", "L274"} \cup TryLines \cup BareLines
           \cup CollectLines
\* lines of get_GPS_Fix up to the end of its wait loop
FixWaitLines == {"L41", "L127", "L133", "L140", "L142", "L143", "L144"}

(* ---- C11 ---- *)
\* C11 as stated: when every update but the last reported has_fix with the
\* year 2020 and the last reported has_fix with another year, the wait ran
\* exactly as many poll cycles (update, year read, sleep) as there were
\* updates reporting 2020.
C11_Original ==
  (GPS /\ pc = "L148" /\ sentinelOnly /\ gpsPolls >= 2) =>
    gpsSleeps = gpsPolls - 1

\* C11 amended: in that case the wait ran one poll cycle more than there
\* were updates reporting 2020: the update that satisfies the loop test is
\* itself followed by the year read and the 1 s sleep before the loop ends.
C11_OneCyclePerUpdate ==
  (GPS /\ pc = "L148" /\ sentinelOnly) =>
    /\ gpsSleeps = gpsPolls
    /\ gps_module.has_fix /\ gps_module.tm_year # SentinelYear
    /\ clock.tm_sec = gpsPolls * FixPollSecs

\* two updates with has_fix and 2020, then one with has_fix and 2024
C11_Witness ==
  /\ GPS /\ pc = "L148" /\ sentinelOnly
  /\ gpsPolls = 3 /\ gpsSleeps = 3
  /\ gps_module.tm_year = 2024

(* ---- C12 ---- *)
\* C12: when lightning leaves its loop by the break of a LIGHTNING read,
\* the LED is on, and it is on from the statement after the LIGHTNING
\* branch was entered until the return.
C12_LedOnAtLightningReturn ==
  (LS /\ interrupt_value = "LIGHTNING") =>
    /\ (AtReturn /\ retBy = "break") => PiLED
    /\ pc \in {"L265", "L266"} => PiLED

\* a LIGHTNING return after a NOISE pass had switched the LED off
C12_Witness ==
  /\ LS /\ AtReturn /\ retBy = "break"
  /\ interrupt_value = "LIGHTNING"
  /\ noisePasses >= 1
  /\ PiLED

(* ---- C13 ---- *)
\* C13: once the constructor has returned, the stored coordinates have been
\* assigned exactly once and are what get_GPS_Fix returned, and the clock
\* has been written once with positioning enabled and never without it.
C13_SetOnceAtStartup ==
  Constructed =>
    /\ coordWrites = 1
    /\ <<gps_lat, gps_long>> = fix
    /\ rtcWrites = IF GPS THEN 1 ELSE 0

\* a record assembled by a node that had acquired a fix
C13_Witness ==
  /\ RecordAssembled /\ GPS /\ LS
  /\ coordWrites = 1 /\ rtcWrites = 1
  /\ retBy = "break"

(* ---- C14 ---- *)
\* C14: when lightning returns after a KeyboardInterrupt, the last register
\* read of the call (of cause NOISE, DISTURBER or LIGHTNING) has been
\* followed by its clear_statistics.
C14_CancelLeavesNoReadUncleared ==
  (LS /\ AtReturn /\ retBy = "cancel" /\ reads >= 1
      /\ interrupt_value \in {"NOISE", "DISTURBER", "LIGHTNING"})
    => passClears = 1

(* ---- C15 ---- *)
\* C15: receiver power is off before line 127 and with positioning
\* disabled; with positioning enabled it is on at the configuration
\* commands, at every update, year read and sleep, at the location read and
\* the clock write, and until line 54; it is off from then on, which is
\* after the coordinates were stored and the clock was set, and it is off
\* in every state after the constructor has returned.
C15_ReceiverPowerWindow ==
  /\ ~GPS => ~GPS_ENABLE
  /\ pc \in {"L41", "L127"} => ~GPS_ENABLE /\ gpsCmds = 0 /\ gpsPolls = 0
  /\ pc \in {"L133", "L140", "L142", "L143", "L144", "L148", "L152"}
       => GPS_ENABLE
  /\ (GPS /\ pc \in {"L171", "L53", "L54"}) => GPS_ENABLE
  /\ (gpsCmds > 0 \/ gpsPolls > 0) => (GPS_ENABLE \/ pc \notin FixWaitLines)
  /\ (GPS /\ ~GPS_ENABLE /\ pc \notin {"L41", "L127"})
       => rtcWrites = 1 /\ coordWrites = 1
  /\ (Constructed \/ pc \in {"L57", "exited"}) => ~GPS_ENABLE

\* an event wait of a node that had acquired a fix
C15_Witness ==
  /\ GPS /\ pc = "L239" /\ sampledLow
  /\ ~GPS_ENABLE
  /\ rtcWrites = 1

(* ---- C16 ---- *)
\* C16: with positioning enabled, as long as no update has reported has_fix
\* together with a year other than 2020, get_GPS_Fix is still in or before
\* its wait loop: no coordinates are stored, the clock is not written, no
\* call of lightning has begun and no record exists.
C16_NoFixNoProgress ==
  (GPS /\ ~goodPoll) =>
    /\ pc \in FixWaitLines
    /\ coordWrites = 0 /\ rtcWrites = 0
    /\ packet = <<>>

\* the wait still running after two updates without a valid fix
C16_Witness ==
  /\ GPS /\ ~goodPoll
  /\ pc = "L140" /\ gpsPolls >= 2

(* ---- C17 ---- *)
\* C17: with the detector enabled, once a DISTURBER or LIGHTNING cause has
\* been read lightning eventually reaches its return; and as long as no
\* such cause has been read and no KeyboardInterrupt was raised, lightning
\* has not returned.
C17_ReturnsIffTerminalRead ==
  /\ ((LS /\ pc = "L244" /\ interrupt_value \in Terminal) ~> AtReturn)
  /\ []((LS /\ ~cancelled /\ terminals = 0)
          => pc \notin ({"L276"} \cup CollectLines))

\* a LIGHTNING return after low samples and a NOISE pass
C17_Witness ==
  /\ LS /\ AtReturn /\ retBy = "break"
  /\ sampledLow /\ noisePasses >= 1
  /\ interrupt_value = "LIGHTNING"
  /\ ~cancelled

(* ---- C18 ---- *)
\* C18: the value of the disturber counter printed for a DISTURBER read is
\* greater than the value printed for the DISTURBER read before it.
C18_DisturberCountGrows ==
  [][(pc = "L253" /\ pc' = "L256") => i' > prevReport]_vars

(* ---- C19 ---- *)
\* C19: when get_GPS_Fix returns with positioning enabled, the clock has
\* been written exactly once, with the year and second of the last receiver
\* update, the one that satisfied the loop test; its year is not 2020, and
\* the coordinates returned are the position of that same update.
C19_ClockAndFixOfLastUpdate ==
  (GPS /\ pc = "L171") =>
    /\ rtcWrites = 1
    /\ clock = [tm_year |-> gps_module.tm_year, tm_sec |-> gps_module.tm_sec]
    /\ check_y = clock.tm_year
    /\ clock.tm_year # SentinelYear
    /\ fix = gps_module.pos
    /\ \E r \in GpsReports : r.tm_sec = clock.tm_sec /\ r.pos = fix

\* a fix acquired at the third update
C19_Witness ==
  /\ GPS /\ pc = "L171"
  /\ gpsPolls = 3
  /\ clock.tm_year = 2024 /\ clock.tm_sec = 1
  /\ fix = <<31, -97>>

(* ---- C20 ---- *)
\* C20: the LED goes off only by line 272, at the end of a pass that did
\* not break out of the loop and after its settle sleep; no other step,
\* and in particular not the entry of lightning, a DISTURBER return or a
\* KeyboardInterrupt, switches it off.
C20_LedOffOnlyAfterSettle ==
  [][(PiLED /\ ~PiLED') =>
       /\ pc = "L272" /\ pc' = "L239"
       /\ interrupt_value \notin Terminal]_vars

\* a DISTURBER return with the LED still on from an earlier LIGHTNING
C20_Witness ==
  /\ LS /\ AtReturn /\ retBy = "break"
  /\ interrupt_value = "DISTURBER"
  /\ PiLED
====
